---- MODULE Spec2Model ----
(***************************************************************************)
(* Model of build.rs of libui-sys: one build-script invocation is the      *)
(* sequential run of main(); invocations are serialized and share the      *)
(* build-output directory OUT_DIR/build.                                   *)
(***************************************************************************)
EXTENDS Integers, Sequences, FiniteSets, TLC

\* ------------------------------------------------------------------ bounds
MaxInvocations == 2

\* ----------------------------------------------------------- input domains
\* TARGET values, as the dash-separated components of the triple.
Targets ==
    { <<"x86_64", "pc", "windows", "msvc">>,
      <<"x86_64", "pc", "windows", "gnu">>,
      <<"x86_64", "unknown", "linux", "gnu">>,
      <<"x86_64", "apple", "darwin">>,
      <<"x86_64", "unknown", "freebsd">> }

Hosts == {"windows", "unix"}

Unset == "unset"
External == "external"
\* values of CARGO_CFG_TARGET_ARCH seen by detect_windres_msvc
Arches == {"x86_64", "x86", "arm", Unset}
\* results of find_winsdk::SdkInfo::find
SdkResults == {"Err", "None", "Some"}

\* bytes a child process may write: ASCII 'n' and 0xFF (never valid UTF-8)
Outputs == { <<110>>, <<255>> }

\* installed gtk+-3.0 minor version (3.x.0); -1 when the package is absent
GtkInstalled == {-1, 8, 10, 22}

Absent == "absent"
StaleTarget == "libui.so.old"

\* ------------------------------------------------------------------- state
VARIABLES
    pc,            \* position in main(): the next step, or "idle"/"done"/"failed"
    invocations,   \* number of invocations started so far
    target,        \* env TARGET
    staticEnv,     \* LIBUI_SYS_STATIC_BUILD is set
    staticFeature, \* CARGO_FEATURE_STATIC is set
    host,          \* OS the build script itself is compiled for (cfg)
    optOut,        \* DO_NOT_DETECT_WINDRES is set
    windresStart,  \* WINDRES at process start
    windres,       \* WINDRES in the process environment
    sdkProbes,     \* calls of SdkInfo::find in this invocation
    sdkResult,     \* result of the last SdkInfo::find, Unset if none
    fs,            \* OUT_DIR/build: sentinel, configured kind, meson-out files
    hadSentinel,   \* build/build.ninja existed when the invocation started
    log,           \* commands handed to Command::output, in order
    procOut,       \* the Output of the last child process
    fixups,        \* artifact fixups performed in this invocation
    preSo,         \* meson-out/libui.so as found by the symlink fixup
    rm,            \* result of fs::remove_file in the symlink fixup
    directives,    \* cargo: lines printed to stdout, in order
    probes,        \* pkg-config queries made
    embedded,      \* resource scripts handed to embed_resource::compile
    failure        \* the panic that ended the invocation

vars == <<pc, invocations, target, staticEnv, staticFeature, host, optOut,
          windresStart, windres, sdkProbes, sdkResult, fs, hadSentinel,
          log, procOut, fixups, preSo, rm, directives, probes, embedded,
          failure>>

inputs == <<target, staticEnv, staticFeature, host, optOut, windresStart>>
detectVars == <<windres, sdkProbes, sdkResult>>
buildVars == <<fs, hadSentinel, log, procOut>>
fixupVars == <<fixups, preSo, rm>>
outVars == <<directives, probes, embedded>>

\* ---------------------------------------------------------------- helpers
\* str::contains on the target triple
contains(t, s) == \E i \in DOMAIN t : t[i] = s

msvc == contains(target, "msvc")
windows == contains(target, "windows")
linux == contains(target, "linux")
static_linking == staticEnv \/ staticFeature

NoFailure == [kind |-> "none", cmd |-> <<>>, out |-> <<>>, err |-> <<>>]
panic(msg) == [kind |-> msg, cmd |-> <<>>, out |-> <<>>, err |-> <<>>]

NoOutput == [status |-> Unset, stdout |-> <<>>, stderr |-> <<>>]

EmptyDir ==
    [build_ninja |-> FALSE, default_library |-> "none",
     libui_a |-> FALSE, ui_lib |-> FALSE,
     libui_so_0 |-> FALSE, libui_so |-> Absent]

\* String::from_utf8_lossy on bytes that are ASCII or 0xFF
from_utf8_lossy(bytes) ==
    [i \in DOMAIN bytes |-> IF bytes[i] < 128 THEN bytes[i] ELSE 65533]

\* variant: the sentinel is never seen
is_configured_never(dir) == FALSE

is_configured(dir) == dir.build_ninja

\* -------------------------------------------------------------------- Init
Init ==
    /\ pc = "idle"
    /\ invocations = 0
    /\ target \in Targets
    /\ staticEnv = FALSE
    /\ staticFeature \in BOOLEAN
    /\ host \in Hosts
    /\ optOut = FALSE
    /\ windresStart = Unset
    /\ windres = Unset
    /\ sdkProbes = 0
    /\ sdkResult = Unset
    /\ fs = EmptyDir
    /\ hadSentinel = FALSE
    /\ log = <<>>
    /\ procOut = NoOutput
    /\ fixups = <<>>
    /\ preSo = Absent
    /\ rm = Unset
    /\ directives = <<>>
    /\ probes = <<>>
    /\ embedded = <<>>
    /\ failure = NoFailure

\* ----------------------------------------------------------------- actions
\* A new build-script process starts.  OUT_DIR is keyed by cargo on the target
\* and the enabled features, so invocations that share it share TARGET, the
\* host and CARGO_FEATURE_STATIC; the user's environment sets the rest anew.
Start ==
    /\ pc \in {"idle", "done", "failed"}
    /\ invocations < MaxInvocations
    /\ invocations' = invocations + 1
    /\ target' = target
    /\ host' = host
    /\ staticEnv' \in BOOLEAN
    /\ staticFeature' = staticFeature
    /\ optOut' \in BOOLEAN
    /\ windresStart' \in {Unset, External}
    /\ windres' = windresStart'
    /\ sdkProbes' = 0
    /\ sdkResult' = Unset
    /\ hadSentinel' = fs.build_ninja
    /\ log' = <<>>
    /\ procOut' = NoOutput
    /\ fixups' = <<>>
    /\ preSo' = Absent
    /\ rm' = Unset
    /\ directives' = <<>>
    /\ probes' = <<>>
    /\ embedded' = <<>>
    /\ failure' = NoFailure
    /\ pc' = "bindgen"
    /\ UNCHANGED fs

\* main, lines 9-18: generate and write the bindings
GenerateBindings ==
    /\ pc = "bindgen"
    /\ \E ok \in {"ok", "generate", "write"} :
         IF ok = "ok"
         THEN pc' = "detect" /\ failure' = NoFailure
         ELSE /\ pc' = "failed"
              /\ failure' = panic(IF ok = "generate"
                                  THEN "Unable to generate bindings"
                                  ELSE "Couldn't write bindings!")
    /\ UNCHANGED <<invocations, inputs, detectVars, buildVars, fixupVars, outVars>>

\* detect_windres_msvc on a Windows host past the opt-out, lines 123-140.
\* Returns the new WINDRES value, the SdkInfo::find result seen and the
\* panic message ("none" on return).
find_windres(wr, sdk, arch) ==
    IF wr # Unset THEN [windres |-> wr, sdk |-> Unset, panic |-> "none"]
    ELSE IF sdk = "Err"
         THEN [windres |-> wr, sdk |-> sdk,
               panic |-> "Error: finding Win SDK errored out"]
    ELSE IF sdk = "None" THEN [windres |-> wr, sdk |-> sdk, panic |-> "none"]
    ELSE IF arch = "x86_64"
         THEN [windres |-> "\"sdk/bin/x64/rc.exe\"", sdk |-> sdk, panic |-> "none"]
    ELSE IF arch = "x86"
         THEN [windres |-> "\"sdk/bin/x86/rc.exe\"", sdk |-> sdk, panic |-> "none"]
    ELSE IF arch # Unset
         THEN [windres |-> wr, sdk |-> sdk,
               panic |-> "Unsupported target architecture"]
    ELSE [windres |-> wr, sdk |-> sdk, panic |-> "Error getting target arch"]

\* variant: DO_NOT_DETECT_WINDRES is not consulted
detect_windres_ignore_optout(h, opt, wr, sdk, arch) ==
    IF h # "windows" THEN [windres |-> wr, sdk |-> Unset, panic |-> "none"]
    ELSE find_windres(wr, sdk, arch)

\* detect_windres_msvc, lines 117-146.  The cfg attribute selects the body by
\* the OS the build script is compiled for.
detect_windres_msvc(h, opt, wr, sdk, arch) ==
    IF h # "windows" THEN [windres |-> wr, sdk |-> Unset, panic |-> "none"]
    ELSE IF opt THEN [windres |-> wr, sdk |-> Unset, panic |-> "none"]
    ELSE find_windres(wr, sdk, arch)

\* main, lines 20-33: target properties, link mode, resource-compiler detection
DetectWindres ==
    /\ pc = "detect"
    /\ IF msvc /\ ~static_linking
       THEN \E sdk \in SdkResults, arch \in Arches :
              LET r == detect_windres_msvc(host, optOut, windres, sdk, arch) IN
              /\ windres' = r.windres
              /\ sdkResult' = r.sdk
              /\ sdkProbes' = IF r.sdk = Unset THEN sdkProbes ELSE sdkProbes + 1
              /\ IF r.panic = "none"
                 THEN pc' = "meson" /\ failure' = NoFailure
                 ELSE pc' = "failed" /\ failure' = panic(r.panic)
       ELSE /\ pc' = "meson"
            /\ UNCHANGED <<detectVars, failure>>
    /\ UNCHANGED <<invocations, inputs, buildVars, fixupVars, outVars>>

\* the command lines run_meson builds, lines 154-167
meson_cmd(static) ==
    [dir |-> "libui", name |-> "meson",
     args |-> <<".", "build", "--default-library",
                IF static THEN "static" ELSE "shared",
                "--buildtype=release", "--backend=ninja">>]

ninja_cmd == [dir |-> "build", name |-> "ninja", args |-> <<>>]

\* variant: the exit status is not looked at
run_command_ignore_status(cmd, o) ==
    IF o.status = "spawn_error"
    THEN [kind |-> "unable to invoke", cmd |-> cmd, out |-> <<>>, err |-> <<>>]
    ELSE NoFailure

\* run_command, lines 170-191: the panic raised for a child's Output,
\* NoFailure when the child exited with status 0
run_command(cmd, o) ==
    IF o.status = "spawn_error"
    THEN [kind |-> "unable to invoke", cmd |-> cmd, out |-> <<>>, err |-> <<>>]
    ELSE IF o.status # "success"
    THEN [kind |-> "invocation failed", cmd |-> cmd,
          out |-> from_utf8_lossy(o.stdout), err |-> from_utf8_lossy(o.stderr)]
    ELSE NoFailure

\* what a child process can hand back to Command::output
ProcessOutputs ==
    {[status |-> "success", stdout |-> <<>>, stderr |-> <<>>],
     [status |-> "spawn_error", stdout |-> <<>>, stderr |-> <<>>]}
    \cup [status : {"nonzero"}, stdout : Outputs, stderr : Outputs]

\* run_meson, lines 153-166: configure unless the sentinel is there
Configure ==
    /\ pc = "meson"
    /\ IF ~is_configured(fs)
       THEN \E o \in ProcessOutputs :
              LET cmd == meson_cmd(static_linking)
                  f == run_command(cmd, o) IN
              /\ log' = Append(log, cmd)
              /\ procOut' = o
              /\ failure' = f
              /\ IF f = NoFailure
                 THEN /\ pc' = "ninja"
                      /\ fs' = [fs EXCEPT !.build_ninja = TRUE,
                                          !.default_library = cmd.args[4]]
                 ELSE pc' = "failed" /\ fs' = fs
       ELSE /\ pc' = "ninja"
            /\ UNCHANGED <<fs, log, procOut, failure>>
    /\ UNCHANGED <<invocations, inputs, detectVars, hadSentinel, fixupVars, outVars>>

\* run_meson, line 167: the native build.  A successful build leaves the
\* artifacts of the configured library kind in meson-out, or leaves one out.
Compile ==
    /\ pc = "ninja"
    /\ \E o \in ProcessOutputs, built \in BOOLEAN, so \in {Absent, StaleTarget} :
         LET f == run_command(ninja_cmd, o) IN
         /\ log' = Append(log, ninja_cmd)
         /\ procOut' = o
         /\ failure' = f
         /\ IF f = NoFailure
            THEN /\ pc' = "copy"
                 /\ fs' = IF fs.default_library = "static"
                          THEN [fs EXCEPT !.libui_a = @ \/ built]
                          ELSE [fs EXCEPT !.libui_so_0 = @ \/ (built /\ linux),
                                          !.libui_so = IF @ = Absent /\ linux
                                                       THEN so ELSE @]
            ELSE pc' = "failed" /\ fs' = fs
    /\ UNCHANGED <<invocations, inputs, detectVars, hadSentinel, fixupVars, outVars>>

\* fs::copy(libui.a, ui.lib), lines 45-49
copy_archive(dir) ==
    IF dir.libui_a
    THEN [panic |-> "none", fs |-> [dir EXCEPT !.ui_lib = TRUE]]
    ELSE [panic |-> "Unable to copy libui.a to ui.lib", fs |-> dir]

\* main, lines 41-50
CopyArchive ==
    /\ pc = "copy"
    /\ IF msvc /\ static_linking
       THEN LET r == copy_archive(fs) IN
            /\ fs' = r.fs
            /\ IF r.panic = "none"
               THEN /\ pc' = "symlink"
                    /\ fixups' = Append(fixups, "copy")
                    /\ failure' = NoFailure
               ELSE /\ pc' = "failed"
                    /\ fixups' = fixups
                    /\ failure' = panic(r.panic)
       ELSE /\ pc' = "symlink"
            /\ UNCHANGED <<fs, fixups, failure>>
    /\ UNCHANGED <<invocations, inputs, detectVars, hadSentinel, log, procOut,
                   preSo, rm, outVars>>

\* fs::remove_file(meson-out/libui.so); denied: the OS refuses the unlink
remove_file(dir, denied) ==
    IF dir.libui_so = Absent THEN [res |-> "NotFound", fs |-> dir]
    ELSE IF denied THEN [res |-> "PermissionDenied", fs |-> dir]
    ELSE [res |-> "Ok", fs |-> [dir EXCEPT !.libui_so = Absent]]

\* symlink_file(libui.so.0, libui.so), lines 202-210: symlink(2) refuses an
\* existing link name and does not look at the link target
symlink_file(dir) ==
    IF dir.libui_so # Absent
    THEN [res |-> "AlreadyExists", fs |-> dir]
    ELSE [res |-> "Ok", fs |-> [dir EXCEPT !.libui_so = "libui.so.0"]]

\* variant: a NotFound from remove_file is not forgiven
symlink_fixup_strict(dir, denied) ==
    LET r == remove_file(dir, denied) IN
    IF r.res # "Ok"
    THEN [panic |-> "Unable to remove libui.so", rm |-> r.res, fs |-> r.fs]
    ELSE LET s == symlink_file(r.fs) IN
         IF s.res # "Ok"
         THEN [panic |-> "Unable to symlink libui.so.0 to libui.so",
               rm |-> r.res, fs |-> s.fs]
         ELSE [panic |-> "none", rm |-> r.res, fs |-> s.fs]

\* the symlink fixup, lines 54-63
symlink_fixup(dir, denied) ==
    LET r == remove_file(dir, denied) IN
    IF r.res \notin {"Ok", "NotFound"}
    THEN [panic |-> "Unable to remove libui.so", rm |-> r.res, fs |-> r.fs]
    ELSE LET s == symlink_file(r.fs) IN
         IF s.res # "Ok"
         THEN [panic |-> "Unable to symlink libui.so.0 to libui.so",
               rm |-> r.res, fs |-> s.fs]
         ELSE [panic |-> "none", rm |-> r.res, fs |-> s.fs]

\* main, lines 51-64
SymlinkShared ==
    /\ pc = "symlink"
    /\ IF linux /\ ~static_linking
       THEN \E denied \in BOOLEAN :
              LET r == symlink_fixup(fs, denied) IN
              /\ preSo' = fs.libui_so
              /\ rm' = r.rm
              /\ fs' = r.fs
              /\ IF r.panic = "none"
                 THEN /\ pc' = "emit"
                      /\ fixups' = Append(fixups, "symlink")
                      /\ failure' = NoFailure
                 ELSE /\ pc' = "failed"
                      /\ fixups' = fixups
                      /\ failure' = panic(r.panic)
       ELSE /\ pc' = "emit"
            /\ UNCHANGED <<fs, fixupVars, failure>>
    /\ UNCHANGED <<invocations, inputs, detectVars, hadSentinel, log, procOut,
                   outVars>>

\* one cargo: line: cargo:<key>=<kind>=<value>
directive(key, kind, value) == [key |-> key, kind |-> kind, value |-> value]

\* the primary library line, lines 69-77
primary_lib(is_msvc, static) ==
    directive("rustc-link-lib",
              IF static THEN "static" ELSE "dylib",
              IF is_msvc /\ ~static THEN "libui" ELSE "ui")

\* main, lines 65-77: search path, then the library itself
EmitLink ==
    /\ pc = "emit"
    /\ directives' = directives
                       \o <<directive("rustc-link-search", "native", "build/meson-out"),
                            primary_lib(msvc, static_linking)>>
    /\ pc' = "aux"
    /\ UNCHANGED <<invocations, inputs, detectVars, buildVars, fixupVars, probes,
                   embedded, failure>>

\* the array of lines 82-97
windows_deps ==
    <<"user32", "kernel32", "gdi32", "comctl32", "uxtheme", "msimg32",
      "comdlg32", "d2d1", "dwrite", "ole32", "oleaut32", "oleacc", "uuid",
      "windowscodecs">>

\* variant: the system libraries are printed in either link mode
aux_libs_any_mode(static, is_windows) ==
    IF is_windows
    THEN [i \in DOMAIN windows_deps |->
             directive("rustc-link-lib", "dylib", windows_deps[i])]
    ELSE <<>>

\* the lines the loop of lines 82-101 prints
aux_libs(static, is_windows) ==
    IF static /\ is_windows
    THEN [i \in DOMAIN windows_deps |->
             directive("rustc-link-lib", "dylib", windows_deps[i])]
    ELSE <<>>

\* .atleast_version("3.10.0"), line 105, as the minor version of 3.x.0
MinGtkMinor == 10

\* pkg_config probe of gtk+-3.0, lines 104-107; installed < 0: not installed
probe_gtk(installed) == installed >= MinGtkMinor

\* main, lines 79-109
EmitAux ==
    /\ pc = "aux"
    /\ directives' = directives \o aux_libs(static_linking, windows)
    /\ IF static_linking /\ linux
       THEN \E installed \in GtkInstalled :
              /\ probes' = Append(probes, [package |-> "gtk+-3.0",
                                           atleast |-> MinGtkMinor])
              /\ IF probe_gtk(installed)
                 THEN pc' = "embed" /\ failure' = NoFailure
                 ELSE /\ pc' = "failed"
                      /\ failure' = panic("Unable to perform pkg-config search")
       ELSE /\ pc' = "embed"
            /\ UNCHANGED <<probes, failure>>
    /\ UNCHANGED <<invocations, inputs, detectVars, buildVars, fixupVars, embedded>>

\* variant: the shared manifest is embedded in either link mode
resources_always(static) == <<"shared_resources.rc">>

\* the resource scripts main hands to embed_resource, lines 111-114
resources(static) == IF static THEN <<>> ELSE <<"shared_resources.rc">>

\* main, lines 111-115.  embed_resource::compile aborts the build script
\* when the resource compiler fails; off Windows it does nothing.
EmbedResources ==
    /\ pc = "embed"
    /\ \E ok \in BOOLEAN :
         IF ok \/ resources(static_linking) = <<>> \/ ~windows
         THEN /\ embedded' = embedded \o resources(static_linking)
              /\ pc' = "done"
              /\ failure' = NoFailure
         ELSE /\ embedded' = embedded
              /\ pc' = "failed"
              /\ failure' = panic("embed_resource: compilation failed")
    /\ UNCHANGED <<invocations, inputs, detectVars, buildVars, fixupVars,
                   directives, probes>>

Next ==
    \/ Start
    \/ GenerateBindings
    \/ DetectWindres
    \/ Configure
    \/ Compile
    \/ CopyArchive
    \/ SymlinkShared
    \/ EmitLink
    \/ EmitAux
    \/ EmbedResources

Spec == Init /\ [][Next]_vars

\* ------------------------------------------------------------- properties
LinkLibs == SelectSeq(directives, LAMBDA d : d.key = "rustc-link-lib")
LinkKind == IF static_linking THEN "static" ELSE "dylib"
ToolNames == [i \in DOMAIN log |-> log[i].name]
PostBuild == {"copy", "symlink", "emit", "aux", "embed", "done"}
macos == contains(target, "darwin")

\* C1: a successful invocation prints exactly one primary library line, with
\* a non-empty name, the kind of the link mode and the name ui off MSVC, then
\* exactly the auxiliary set of the decision table: the 14 Windows system
\* libraries as dylib for Static on MSVC-like or Windows targets, the
\* gtk+-3.0 >= 3.10 query for Static on Linux, nothing for Dynamic and macOS.
C1_LinkPlan ==
    pc = "done" =>
      LET libs == LinkLibs IN
      /\ Len(libs) >= 1
      /\ Cardinality({i \in DOMAIN libs : libs[i].value \in {"ui", "libui"}}) = 1
      /\ libs[1].value # ""
      /\ libs[1].kind = LinkKind
      /\ (~msvc => libs[1].value = "ui")
      /\ IF static_linking /\ (msvc \/ windows)
         THEN /\ Len(libs) = 15
              /\ \A i \in 1..14 : /\ libs[i + 1].kind = "dylib"
                                  /\ libs[i + 1].value = windows_deps[i]
         ELSE Len(libs) = 1
      /\ probes = IF static_linking /\ linux
                  THEN <<[package |-> "gtk+-3.0", atleast |-> 10]>>
                  ELSE <<>>
      /\ (~static_linking \/ macos => Len(libs) = 1 /\ probes = <<>>)

C1_Witness ==
    /\ pc = "done"
    /\ msvc
    /\ static_linking
    /\ Len(LinkLibs) = 15

\* C2: with the sentinel present at the start meson is run zero times and
\* ninja once; with it absent meson is run once and before ninja; ninja runs
\* in every invocation that gets past configuration.
C2_ConfigureOnce ==
    /\ pc = "ninja" => ToolNames = IF hadSentinel THEN <<>> ELSE <<"meson">>
    /\ pc \in PostBuild =>
         ToolNames = IF hadSentinel THEN <<"ninja">> ELSE <<"meson", "ninja">>
    /\ pc = "failed" /\ log # <<>> =>
         IF hadSentinel
         THEN ToolNames = <<"ninja">>
         ELSE \/ ToolNames = <<"meson", "ninja">>
              \/ ToolNames = <<"meson">> /\ failure.cmd = log[1]

C2_Witness ==
    /\ hadSentinel
    /\ pc = "done"
    /\ ToolNames = <<"ninja">>

\* the text String::from_utf8_lossy must give for the bytes: every ASCII
\* byte kept in place
Rendered(text, bytes) ==
    /\ Len(text) = Len(bytes)
    /\ \A i \in DOMAIN bytes : bytes[i] < 128 => text[i] = bytes[i]

C3_Failed ==
    /\ procOut.status = "nonzero" =>
         pc = "failed" /\ failure.kind = "invocation failed"
    /\ failure.kind = "invocation failed" =>
         /\ pc = "failed"
         /\ procOut.status = "nonzero"
         /\ failure.cmd = log[Len(log)]
         /\ Rendered(failure.out, procOut.stdout)
         /\ Rendered(failure.err, procOut.stderr)
         /\ Cardinality({i \in DOMAIN log : log[i].name = failure.cmd.name}) = 1
         /\ (failure.cmd.name = "meson" => ToolNames = <<"meson">>)
         /\ fixups = <<>>
         /\ directives = <<>>
         /\ probes = <<>>
         /\ embedded = <<>>

C3_Halts ==
    pc = "failed" => pc' = "bindgen" /\ invocations' = invocations + 1

\* C3: a tool that exits non-zero ends the invocation at once: it is not run
\* again, no later step runs (no ninja after a failed meson, no fixup, no
\* directive), and the panic carries the command line and the captured
\* stdout and stderr.
C3_FailFast == []C3_Failed /\ [][C3_Halts]_vars

C3_Witness ==
    /\ failure.kind = "invocation failed"
    /\ failure.cmd.name = "meson"
    /\ procOut.stderr = <<110>>
    /\ failure.err = <<110>>

\* C4: an invocation that ends because gtk+-3.0 is absent or too old has
\* printed no linker directive.
C4_NoDirectiveBeforeProbe ==
    failure.kind = "Unable to perform pkg-config search" => directives = <<>>

BuildSucceeded ==
    /\ log # <<>>
    /\ log[Len(log)].name = "ninja"
    /\ procOut.status = "success"

\* C5: when the artifact a fixup consumes is missing after a successful
\* native build (libui.a for MSVC Static, libui.so.0 for Linux Dynamic) the
\* invocation fails at the fixup and prints no linker directive.
C5_MissingArtifactFatal ==
    /\ BuildSucceeded
    /\ pc \notin {"copy", "symlink"}
    /\ \/ msvc /\ static_linking /\ ~fs.libui_a
       \/ linux /\ ~static_linking /\ ~fs.libui_so_0
    => /\ pc = "failed"
       /\ failure.kind \in {"Unable to copy libui.a to ui.lib",
                            "Unable to symlink libui.so.0 to libui.so"}
       /\ directives = <<>>

\* C6: with libui.so.0 present and libui.so absent or a stale link, the
\* symlink fixup succeeds and leaves libui.so linked to libui.so.0, running
\* it again succeeds and changes nothing, an existing link is removed
\* without error, and a removal error other than NotFound is fatal.
C6_SymlinkIdempotent ==
    linux /\ ~static_linking /\ rm # Unset /\ fs.libui_so_0 =>
      /\ rm \in {"Ok", "NotFound"} =>
           /\ "symlink" \in {fixups[i] : i \in DOMAIN fixups}
           /\ failure.kind \notin {"Unable to remove libui.so",
                                   "Unable to symlink libui.so.0 to libui.so"}
           /\ fs.libui_so = "libui.so.0"
           /\ symlink_fixup(fs, FALSE).panic = "none"
           /\ symlink_fixup(fs, FALSE).fs = fs
      /\ preSo # Absent => rm # "NotFound"
      /\ rm \notin {"Ok", "NotFound"} =>
           /\ pc = "failed"
           /\ failure.kind = "Unable to remove libui.so"
           /\ fs.libui_so = preSo
           /\ directives = <<>>

C6_Witness ==
    /\ linux /\ ~static_linking /\ fs.libui_so_0
    /\ preSo = "libui.so.0"
    /\ rm = "Ok"
    /\ fs.libui_so = "libui.so.0"
    /\ pc = "done"

\* C7: WINDRES changes only on an MSVC-like target with the variable unset
\* and no opt-out; otherwise it keeps its starting value and the SDK lookup
\* is not attempted.
C7_WindresFrame ==
    /\ ~msvc \/ windresStart # Unset \/ optOut =>
         windres = windresStart /\ sdkProbes = 0 /\ sdkResult = Unset
    /\ windres # windresStart => msvc /\ windresStart = Unset /\ ~optOut

C7_Witness ==
    /\ pc = "done"
    /\ msvc /\ ~static_linking /\ host = "windows"
    /\ optOut /\ windresStart = Unset
    /\ windres = Unset

\* C8: on MSVC Dynamic with WINDRES unset and no opt-out, an SDK lookup that
\* errors or finds nothing ends the invocation before meson and ninja.
C8_SdkFailureFatal ==
    /\ msvc /\ ~static_linking
    /\ windresStart = Unset /\ ~optOut
    /\ sdkResult \in {"Err", "None"}
    => /\ pc = "failed"
       /\ failure.kind = "Error: finding Win SDK errored out"
       /\ log = <<>>

C10_ConfiguredKindMatches ==
    pc = "done" =>
      fs.default_library = IF static_linking THEN "static" ELSE "shared"
====
